---- MODULE Spec2Model ----
(***************************************************************************)
(* Model of the Publisher-to-HTML converter: the retrying conversion       *)
(* supervisor convert_pub_to_html (src/convert.py) and the two-pass tree   *)
(* walker convert_directory (src/convert_tree_to_pub.py).                  *)
(*                                                                         *)
(* The program is single-threaded and synchronous.  One loop iteration of  *)
(* the supervisor is two actions: the loop header with the kill on a       *)
(* retry, then the try / except / finally body.  What the external         *)
(* application does in it (which automation call fails, with which error,  *)
(* what SaveAs leaves on disk, whether Close fails) is drawn from small    *)
(* sets.                                                                   *)
(***************************************************************************)
EXTENDS Integers, Sequences, FiniteSets, TLC

\* ------------------------------------------------------------------ bounds

\* Largest max_retries a caller passes.
MaxRetries == 3

\* Number of consecutive calls the single-file caller makes.
MaxCalls == 2

\* Largest number of directory entries in an input tree.
MaxTreeFiles == 2

\* ------------------------------------------------------- program constants

\* The "modal dialog" error code, the only retryable one.
TransientCode == -2147221457

\* Default of the max_retries parameter, used by the tree walker's calls.
DefaultMaxRetries == 3

\* Another automation error code (any code but the transient one).
OtherCode == TransientCode + 1

\* ------------------------------------------------------------ file names
\* A file name is a sequence of characters, so that lower(), endswith() and
\* splitext() are computed, not assumed.

Name_a_pub == <<"a", ".", "p", "u", "b">>
Name_B_PUB == <<"B", ".", "P", "U", "B">>
Name_c_txt == <<"c", ".", "t", "x", "t">>
Name_l_txt == <<"l", ".", "t", "x", "t">>
Name_m_pub == <<"m", ".", "p", "u", "b">>
Name_k_pub == <<"k", ".", "p", "u", "b">>
Name_gone_pub == <<"g", ".", "p", "u", "b">>

PubSuffix == <<".", "p", "u", "b">>

\* str.lower() on one character of the alphabet used here.
LowerChar(c) ==
    CASE c = "P" -> "p"
      [] c = "U" -> "u"
      [] c = "B" -> "b"
      [] OTHER -> c

Lower(s) == [i \in 1..Len(s) |-> LowerChar(s[i])]

EndsWith(s, suf) ==
    /\ Len(s) >= Len(suf)
    /\ SubSeq(s, Len(s) - Len(suf) + 1, Len(s)) = suf

\* name.lower().endswith('.pub')
EndsWithPub(s) == EndsWith(Lower(s), PubSuffix)

\* os.path.splitext(name)[0] and Path(name).stem: the name up to its last
\* dot, unless only dots precede that dot.
DotPositions(s) == {i \in 1..Len(s) : s[i] = "." /\ \E j \in 1..(i-1) : s[j] # "."}
LastDot(s) == CHOOSE i \in DotPositions(s) : \A j \in DotPositions(s) : j <= i
Stem(s) == IF DotPositions(s) = {} THEN s ELSE SubSeq(s, 1, LastDot(s) - 1)

\* ------------------------------------------------------------- input side
\* A path is a directory (relative to the input root) and a file name.

RootDir == "."
SubDir == "sub"
SingleOutDir == "output"

P_a == [dir |-> RootDir, name |-> Name_a_pub]
P_B == [dir |-> RootDir, name |-> Name_B_PUB]
P_c == [dir |-> RootDir, name |-> Name_c_txt]
P_l == [dir |-> RootDir, name |-> Name_l_txt]
P_m == [dir |-> RootDir, name |-> Name_m_pub]
P_k == [dir |-> RootDir, name |-> Name_k_pub]
P_sub_a == [dir |-> SubDir, name |-> Name_a_pub]
P_gone == [dir |-> RootDir, name |-> Name_gone_pub]

\* Paths that may be directory entries; P_gone never exists.
Universe == {P_a, P_B, P_c, P_l, P_m, P_k, P_sub_a}

\* Paths the single-file caller is given.
Sources == {P_a, P_B, P_c, P_l, P_m, P_gone}

\* Symbolic links among them: l.txt -> a.pub, k.pub -> a.pub, m.pub -> c.txt.
IsLink(p) == p \in {P_l, P_k, P_m}
LinkTarget(p) ==
    CASE p = P_l -> P_a
      [] p = P_k -> P_a
      [] p = P_m -> P_c
      [] OTHER -> p

\* Path(p).resolve() (under the comment "Convert to absolute paths"): the
\* absolute path, with symbolic links followed.
Resolve(p, entries) == IF p \in entries /\ IsLink(p) THEN LinkTarget(p) ELSE p

\* os.path.exists of a resolved path.
PathExists(p, entries) == p \in entries /\ ~IsLink(p)

WalkDirs == <<RootDir, SubDir>>
OutDirs == {RootDir, SubDir, SingleOutDir}

\* ------------------------------------------------------------ output side
\* What is at output_base + '.htm' and at output_base + '_files'.

HtmlKinds == {"absent", "file"}
FilesKinds == {"absent", "file", "empty", "nonempty"}
Entries == [html : HtmlKinds, files : FilesKinds]
AbsentEntry == [html |-> "absent", files |-> "absent"]
ValidEntry == [html |-> "file", files |-> "nonempty"]

Stems == {Stem(p.name) : p \in Universe \cup Sources}
Bases == OutDirs \X Stems

\* os.path.join(output_dir, base_name)
OutputBase(outdir, name) == <<outdir, Stem(name)>>

\* validate_html: TRUE when it raises.
ValidateRaisesNoEmptyCheck(e) ==
    \/ e.html = "absent"
    \/ e.files = "absent" \/ e.files = "file"
ValidateRaises(e) ==
    \/ e.html = "absent"
    \/ e.files = "absent" \/ e.files = "file"
    \/ e.files = "empty"

\* check_output_exists: truthiness of the returned value.
CheckOutputExistsHtmlOnly(e) == e.html # "absent"
CheckOutputExistsNoListing(e) == e.html # "absent" /\ e.files \in {"empty", "nonempty"}
CheckOutputExistsIsFile(e) == e.html # "absent" /\ e.files = "file"
CheckOutputExists(e) ==
    /\ e.html # "absent"
    /\ e.files \in {"empty", "nonempty"}
    /\ e.files = "nonempty"

\* ------------------------------------------------------------- exceptions
\* An exception is what the handler reads of it: whether it has an excepinfo
\* attribute, whether that attribute is None, and the tuple otherwise (the
\* code reads len(excepinfo) and excepinfo[5]).  at is the attempt that
\* raised it, so that str(e) differs between attempts.

ErrKinds == {"transient", "other", "noinfo", "short", "plain"}

AutomationError(kind, at) ==
    [type |-> IF kind = "plain" THEN "Exception" ELSE "com_error",
     hasInfo |-> kind # "plain",
     infoNone |-> kind = "noinfo",
     info |-> CASE kind = "transient" -> <<0, 0, 0, 0, 0, TransientCode>>
                [] kind = "other" -> <<0, 0, 0, 0, 0, OtherCode>>
                [] kind = "short" -> <<0, 0, 0>>
                [] OTHER -> <<>>,
     at |-> at]

\* The RuntimeError validate_html raises.
ValidationError(at) ==
    [type |-> "RuntimeError", hasInfo |-> FALSE, infoNone |-> FALSE,
     info |-> <<>>, at |-> at]

\* Lines 188-195 of the except block: "continue" (next iteration), "break",
\* or "TypeError" when len(e.excepinfo) is applied to None.
RetryDecisionAlwaysRetry(e) == "continue"
RetryDecision(e) ==
    IF e.hasInfo
    THEN IF e.infoNone
         THEN "TypeError"
         ELSE LET error_code == IF Len(e.info) > 5 THEN <<e.info[6]>> ELSE <<>>
              IN  IF error_code # <<TransientCode>> THEN "break" ELSE "continue"
    ELSE "break"

\* The cleanup block, in the except clause and again in the finally clause:
\*   try: if doc: doc.Close(); if publisher: publisher.Quit()  except: pass
\* closeRaises: doc.Close() raises in this block.
Cleanup(doc, publisher, closeRaises) ==
    [closeCalls |-> IF doc THEN 1 ELSE 0,
     quitCalls |-> IF publisher /\ ~(doc /\ closeRaises) THEN 1 ELSE 0]

\* What a SaveAs that returns may leave at output_base: each of the two
\* artifacts is left as it was or written.
SaveEffects(cur) ==
    {[html |-> h, files |-> f] : h \in {cur.html, "file"},
                                 f \in {cur.files, "empty", "nonempty"}}

\* What a SaveAs that raises may leave: nothing new, or the primary file.
FailedSaveEffects(cur) == {cur, [cur EXCEPT !.html = "file"]}

\* Lines 107-111: the exception the precondition checks raise, or "none".
PreconditionError(rp, entries) ==
    IF ~PathExists(rp, entries) THEN "FileNotFoundError"
    ELSE IF ~EndsWithPub(rp.name) THEN "ValueError"
    ELSE "none"

\* ------------------------------------------------------------------ state

VARIABLES
    present,      \* directory entries of the input side
    inputExists,  \* the tree walker's input root exists
    fs,           \* Bases -> Entries: the output artifacts
    outDirs       \* output directories that exist

VARIABLES
    pc,           \* position of convert_pub_to_html: idle, loop, try, done
    srcPath,      \* the pub_path argument
    pubPath,      \* pub_path after resolve()
    outBase,      \* output_base
    maxRetries,   \* max_retries
    attempt,      \* the loop variable
    lastError,    \* last_error: <<>> for None, <<e>> otherwise
    ret,          \* how the call ended
    counters,     \* this call's attempts started, kill_publisher_processes calls,
                  \* and the fault of each finished attempt
    lastAtt       \* what the current or last loop iteration did

VARIABLES
    src,          \* the source document of the single-file caller
    calls,        \* calls made so far
    prev          \* summary of the call before the current one

VARIABLES
    wpc,          \* position of the tree walker: off, start, walk, done
    total,        \* total_files
    converted,    \* files_converted
    skipped,      \* files_skipped
    pending,      \* matching files the second walk has not reached
    invoked,      \* files convert_pub_to_html was called for
    walks,        \* walks of the input tree performed
    caught,       \* per-file errors caught and logged
    treeRet,      \* <<>> or <<converted, skipped>> as returned
    exitCode,     \* <<>> or <<code>>
    initialValid  \* matching files with valid outputs when the walk starts

envVars == <<present, inputExists, fs, outDirs>>
supVars == <<pc, srcPath, pubPath, outBase, maxRetries, attempt, lastError,
             ret, counters, lastAtt>>
callerVars == <<src, calls, prev>>
walkerVars == <<wpc, total, converted, skipped, pending, invoked, walks,
                caught, treeRet, exitCode, initialValid>>
vars == <<envVars, supVars, callerVars, walkerVars>>

\* Line 209: raise RuntimeError(... str(last_error)).
TerminalError(last) == [kind |-> "raise", type |-> "RuntimeError", path |-> <<>>, cause |-> last]

NoRet == [kind |-> "none", type |-> "", path |-> <<>>, cause |-> <<>>]
Returned(base) == [kind |-> "return", type |-> "", path |-> <<base>>, cause |-> <<>>]
Raised(type, cause) == [kind |-> "raise", type |-> type, path |-> <<>>, cause |-> cause]

\* checked: the value of the already-converted check of line 122, once the
\* call has evaluated it.
ZeroCounters == [started |-> 0, kills |-> 0, faults |-> <<>>, checked |-> <<>>]
NoAttempt == [publisher |-> FALSE, doc |-> FALSE, opens |-> 0, saves |-> 0,
              closeCalls |-> 0, quitCalls |-> 0,
              validated |-> FALSE, validateRaised |-> FALSE, exit |-> "none",
              killOk |-> TRUE, extraWait |-> FALSE]
NoPrev == [work |-> FALSE, kind |-> "none", path |-> <<>>]

SupInit ==
    /\ pc = "idle"
    /\ srcPath = P_gone
    /\ pubPath = P_gone
    /\ outBase = OutputBase(SingleOutDir, Name_gone_pub)
    /\ maxRetries = 0
    /\ attempt = 0
    /\ lastError = <<>>
    /\ ret = NoRet
    /\ counters = ZeroCounters
    /\ lastAtt = NoAttempt

\* The call's frame is gone: its locals are what they are before a call.
SupReset ==
    /\ pc' = "idle"
    /\ srcPath' = P_gone
    /\ pubPath' = P_gone
    /\ outBase' = OutputBase(SingleOutDir, Name_gone_pub)
    /\ maxRetries' = 0
    /\ attempt' = 0
    /\ lastError' = <<>>
    /\ ret' = NoRet
    /\ counters' = ZeroCounters
    /\ lastAtt' = NoAttempt

WalkerIdle ==
    /\ wpc = "off"
    /\ total = 0
    /\ converted = 0
    /\ skipped = 0
    /\ pending = {}
    /\ invoked = {}
    /\ walks = 0
    /\ caught = 0
    /\ treeRet = <<>>
    /\ exitCode = <<>>
    /\ initialValid = {}

\* Single-file mode: every path of Universe exists; the caller's source is any
\* of Sources; the artifacts at its output base are in any state.
Init ==
    /\ present = Universe
    /\ inputExists = TRUE
    /\ src \in Sources
    /\ \E e \in Entries :
         fs = [b \in Bases |->
                 IF b = OutputBase(SingleOutDir, Resolve(src, Universe).name)
                 THEN e ELSE AbsentEntry]
    /\ outDirs = {}
    /\ SupInit
    /\ calls = 0
    /\ prev = NoPrev
    /\ WalkerIdle

\* ------------------------------------------------- convert_pub_to_html
\* Lines 100-126: resolve, precondition checks, makedirs, the
\* already-converted check, and entry into the retry loop (with
\* max_retries = 0 the loop body never runs and line 209 raises).
\* dirsBefore: the output directories that exist when the call is made.
Call(p, outdir, n, dirsBefore) ==
    LET rp == Resolve(p, present)
        base == OutputBase(outdir, rp.name)
        pre == PreconditionError(rp, present)
    IN  /\ srcPath' = p
        /\ pubPath' = rp
        /\ maxRetries' = n
        /\ attempt' = 0
        /\ lastError' = <<>>
        /\ counters' = IF pre # "none"
                       THEN ZeroCounters
                       ELSE [ZeroCounters EXCEPT
                               !.checked = <<CheckOutputExists(fs[base])>>]
        /\ lastAtt' = NoAttempt
        /\ IF pre # "none"
           THEN /\ pc' = "done"
                /\ ret' = Raised(pre, <<>>)
                /\ outBase' = outBase
                /\ outDirs' = dirsBefore
           ELSE /\ outDirs' = dirsBefore \cup {outdir}
                /\ outBase' = base
                /\ IF CheckOutputExists(fs[base])
                   THEN /\ pc' = "done"
                        /\ ret' = Returned(base)
                   ELSE IF n = 0
                   THEN /\ pc' = "done"
                        /\ ret' = TerminalError(<<>>)
                   ELSE /\ pc' = "loop"
                        /\ ret' = NoRet
        /\ UNCHANGED <<present, inputExists, fs>>

\* kill_publisher_processes, lines 12-35: its return value.  found: a process
\* named MSPUB.EXE is listed; killFails: proc.kill() raises NoSuchProcess or
\* AccessDenied; survives: the process is still listed after the wait.
KillPublisher(found, killFails, survives) ==
    LET killed == found /\ ~killFails
    IN  ~(killed /\ survives)

KillsBeforeEvery(att) == 1

\* Calls of kill_publisher_processes made on entering iteration `att`
\* (line 131: if attempt > 0).
KillsBefore(att) == IF att > 0 THEN 1 ELSE 0

\* Lines 134-136: the five-second wait taken when kill_publisher_processes
\* returned False; the attempt goes on after it.
ExtraWait(killOk) == ~killOk

\* Lines 127-136: the loop header takes the next attempt, the handles are
\* reset, and on a retry Publisher processes are killed (best effort).
BeginAttempt ==
    /\ pc = "loop"
    /\ attempt < maxRetries
    /\ pc' = "try"
    /\ counters' = [counters EXCEPT
                       !.started = counters.started + 1,
                       !.kills = counters.kills + KillsBefore(attempt)]
    /\ \E found \in BOOLEAN :
       \E killFails \in (IF found THEN BOOLEAN ELSE {FALSE}) :
       \E survives \in (IF found /\ ~killFails THEN BOOLEAN ELSE {FALSE}) :
         LET ok == IF KillsBefore(attempt) > 0
                   THEN KillPublisher(found, killFails, survives)
                   ELSE TRUE
         IN  lastAtt' = [NoAttempt EXCEPT !.killOk = ok,
                                          !.extraWait = ExtraWait(ok)]
    /\ UNCHANGED envVars
    /\ UNCHANGED <<srcPath, pubPath, outBase, maxRetries, attempt, lastError, ret>>
    /\ UNCHANGED callerVars
    /\ UNCHANGED walkerVars

FailSites == {"EnsureDispatch", "AutomationSecurity", "Open", "SaveAs", "none"}

\* Lines 138-209: the rest of the iteration: try body, except clause, finally
\* clause; and, when the loop ends here without a return (a break, or no
\* iteration left), the terminal raise after it.
\*   failAt          the automation call that raises ("none": none does)
\*   kind            the error it raises
\*   w               what SaveAs leaves at output_base
\*   closeRaises1/2  doc.Close() raises in the except / the finally block
RunAttempt ==
    /\ pc = "try"
    /\ \E failAt \in FailSites :
       \E kind \in (IF failAt = "none" THEN {"plain"} ELSE ErrKinds) :
       \E w \in (CASE failAt = "none" -> SaveEffects(fs[outBase])
                   [] failAt = "SaveAs" -> FailedSaveEffects(fs[outBase])
                   [] OTHER -> {fs[outBase]}) :
       LET publisher == failAt # "EnsureDispatch"
           doc == failAt \in {"SaveAs", "none"}
           validated == failAt = "none"
           validateRaised == validated /\ ValidateRaises(w)
           raised == failAt # "none" \/ validateRaised
           e == IF failAt # "none"
                THEN AutomationError(kind, attempt)
                ELSE ValidationError(attempt)
           decision == IF raised THEN RetryDecision(e) ELSE "return"
       IN
       \E closeRaises1 \in (IF raised /\ doc THEN BOOLEAN ELSE {FALSE}) :
       \E closeRaises2 \in (IF doc THEN BOOLEAN ELSE {FALSE}) :
       LET exc == IF raised
                  THEN Cleanup(doc, publisher, closeRaises1)
                  ELSE [closeCalls |-> 0, quitCalls |-> 0]
           fin == Cleanup(doc, publisher, closeRaises2)
       IN
       /\ fs' = [fs EXCEPT ![outBase] = w]
       /\ lastAtt' = [lastAtt EXCEPT
                        !.publisher = publisher,
                        !.doc = doc,
                        !.opens = IF failAt \in {"Open", "SaveAs", "none"} THEN 1 ELSE 0,
                        !.saves = IF doc THEN 1 ELSE 0,
                        !.closeCalls = exc.closeCalls + fin.closeCalls,
                        !.quitCalls = exc.quitCalls + fin.quitCalls,
                        !.validated = validated,
                        !.validateRaised = validateRaised,
                        !.exit = decision]
       /\ lastError' = IF raised THEN <<e>> ELSE lastError
       /\ counters' = [counters EXCEPT
                          !.faults = Append(counters.faults,
                                            IF failAt # "none" THEN kind
                                            ELSE IF validateRaised THEN "validation"
                                            ELSE "none")]
       /\ CASE decision = "return" ->
                 /\ pc' = "done"
                 /\ ret' = Returned(outBase)
                 /\ attempt' = attempt
            [] decision = "continue" /\ attempt + 1 < maxRetries ->
                 /\ pc' = "loop"
                 /\ ret' = ret
                 /\ attempt' = attempt + 1
            [] decision = "continue" /\ attempt + 1 >= maxRetries ->
                 /\ pc' = "done"
                 /\ ret' = TerminalError(<<e>>)
                 /\ attempt' = attempt
            [] decision = "break" ->
                 /\ pc' = "done"
                 /\ ret' = TerminalError(<<e>>)
                 /\ attempt' = attempt
            [] OTHER ->
                 /\ pc' = "done"
                 /\ ret' = Raised(decision, <<e>>)
                 /\ attempt' = attempt
    /\ UNCHANGED <<present, inputExists, outDirs>>
    /\ UNCHANGED <<srcPath, pubPath, outBase, maxRetries>>
    /\ UNCHANGED callerVars
    /\ UNCHANGED walkerVars

\* ------------------------------------------------------ single-file caller
\* A caller that converts the same document into the same output directory,
\* one call after the other.
CallSingle ==
    /\ wpc = "off"
    /\ pc \in {"idle", "done"}
    /\ calls < MaxCalls
    /\ calls' = calls + 1
    /\ prev' = IF calls = 0 THEN NoPrev
               ELSE [work |-> counters.started > 0, kind |-> ret.kind,
                     path |-> ret.path]
    /\ \E n \in 0..MaxRetries : Call(src, SingleOutDir, n, outDirs)
    /\ UNCHANGED src
    /\ UNCHANGED walkerVars

Next == CallSingle \/ BeginAttempt \/ RunAttempt

Spec == Init /\ [][Next]_vars

\* ------------------------------------------------------------ tree walker

\* The filter of both walks (lines 17 and 50): f.lower().endswith('.pub').
IsPubFile(name) == EndsWithPub(name)

\* count_pub_files, lines 8-20: the first walk.
CountPubFiles(entries) == Cardinality({f \in entries : IsPubFile(f.name)})

\* Line 36: if total_files == 0.
NoFilesToConvertNever(n) == FALSE
NoFilesToConvert(n) == n = 0

\* Lines 62-63: output_base = Path(out_dir) / Path(file).stem, where out_dir
\* mirrors the file's directory under the output root.
WalkerBase(f) == OutputBase(f.dir, f.name)

\* Line 90: except Exception catches whatever convert_pub_to_html raises.
WalkerCatchesRuntimeErrorOnly(r) == r.type = "RuntimeError"
WalkerCatches(r) == TRUE

\* The directory os.walk is in: the first one that still has matching files.
DirsPending == {i \in 1..Len(WalkDirs) : \E f \in pending : f.dir = WalkDirs[i]}
CurrentDir == WalkDirs[CHOOSE i \in DirsPending : \A j \in DirsPending : i <= j]

\* Tree mode: an input root that is missing, or one with up to MaxTreeFiles
\* entries; the artifacts of each matching file are absent, valid, or a
\* primary file with an empty '_files' directory.
InitTree ==
    /\ inputExists \in BOOLEAN
    /\ present \in {S \in SUBSET Universe : Cardinality(S) <= MaxTreeFiles}
    /\ ~inputExists => present = {}
    /\ LET matched == {WalkerBase(f) : f \in {g \in present : IsPubFile(g.name)}}
       IN  \E init \in [matched -> {AbsentEntry, ValidEntry,
                                     [html |-> "file", files |-> "empty"]}] :
             fs = [b \in Bases |-> IF b \in matched THEN init[b] ELSE AbsentEntry]
    /\ outDirs = {}
    /\ SupInit
    /\ src = P_gone
    /\ calls = 0
    /\ prev = NoPrev
    /\ wpc = "start"
    /\ total = 0
    /\ converted = 0
    /\ skipped = 0
    /\ pending = {}
    /\ invoked = {}
    /\ walks = 0
    /\ caught = 0
    /\ treeRet = <<>>
    /\ exitCode = <<>>
    /\ initialValid = {}

\* main, lines 114-121, and convert_directory, lines 26-45: the existence
\* check, the counting walk, the early return, and the start of the second
\* walk.  An exception reaches main's handler, which exits with code 1.
TreeStart ==
    /\ wpc = "start"
    /\ IF ~inputExists
       THEN /\ wpc' = "done"
            /\ exitCode' = <<1>>
            /\ UNCHANGED <<total, pending, walks, treeRet, initialValid>>
       ELSE /\ total' = CountPubFiles(present)
            /\ initialValid' = {f \in present :
                                  IsPubFile(f.name) /\ CheckOutputExists(fs[WalkerBase(f)])}
            /\ IF NoFilesToConvert(total')
               THEN /\ wpc' = "done"
                    /\ walks' = 1
                    /\ treeRet' = <<0, 0>>
                    /\ exitCode' = <<0>>
                    /\ pending' = {}
               ELSE /\ wpc' = "walk"
                    /\ walks' = 2
                    /\ pending' = {f \in present : IsPubFile(f.name)}
                    /\ UNCHANGED <<treeRet, exitCode>>
    /\ UNCHANGED <<converted, skipped, invoked, caught>>
    /\ UNCHANGED envVars
    /\ UNCHANGED supVars
    /\ UNCHANGED callerVars

\* Lines 53-88: the next matching file of the directory being walked.  Its
\* mirrored output directory is created; the file is skipped when its outputs
\* exist, and otherwise counted as converted and handed to
\* convert_pub_to_html (with the default max_retries).
WalkFile ==
    /\ wpc = "walk"
    /\ pc = "idle"
    /\ pending # {}
    /\ \E f \in pending :
         /\ f.dir = CurrentDir
         /\ pending' = pending \ {f}
         /\ IF CheckOutputExists(fs[WalkerBase(f)])
            THEN /\ skipped' = skipped + 1
                 /\ outDirs' = outDirs \cup {f.dir}
                 /\ UNCHANGED <<converted, invoked>>
                 /\ UNCHANGED <<present, inputExists, fs>>
                 /\ UNCHANGED supVars
            ELSE /\ converted' = converted + 1
                 /\ invoked' = invoked \cup {f}
                 /\ UNCHANGED skipped
                 /\ Call(f, f.dir, DefaultMaxRetries, outDirs \cup {f.dir})
    /\ UNCHANGED <<wpc, total, walks, caught, treeRet, exitCode, initialValid>>
    /\ UNCHANGED callerVars

\* Lines 87-91: the call has ended and its frame is gone.  An exception it
\* raised is caught and logged; one that is not caught leaves
\* convert_directory and reaches main's handler.
AfterConvert ==
    /\ wpc = "walk"
    /\ pc = "done"
    /\ SupReset
    /\ IF ret.kind = "raise"
       THEN IF WalkerCatches(ret)
            THEN /\ caught' = caught + 1
                 /\ UNCHANGED <<wpc, exitCode>>
            ELSE /\ wpc' = "done"
                 /\ exitCode' = <<1>>
                 /\ UNCHANGED caught
       ELSE UNCHANGED <<wpc, exitCode, caught>>
    /\ UNCHANGED <<total, converted, skipped, pending, invoked, walks, treeRet,
                   initialValid>>
    /\ UNCHANGED envVars
    /\ UNCHANGED callerVars

\* Lines 93-102 and 116-117: the second walk is over; the counts are returned
\* and main ends with exit code 0.
TreeFinish ==
    /\ wpc = "walk"
    /\ pc = "idle"
    /\ pending = {}
    /\ wpc' = "done"
    /\ treeRet' = <<converted, skipped>>
    /\ exitCode' = <<0>>
    /\ UNCHANGED <<total, converted, skipped, pending, invoked, walks, caught,
                   initialValid>>
    /\ UNCHANGED envVars
    /\ UNCHANGED supVars
    /\ UNCHANGED callerVars

NextTree ==
    \/ TreeStart
    \/ WalkFile
    \/ AfterConvert
    \/ TreeFinish
    \/ BeginAttempt
    \/ RunAttempt

SpecTree == InitTree /\ [][NextTree]_vars

\* ------------------------------------------------------------------ claims

\* The primary file exists and the '_files' sibling is a non-empty directory.
OutputsValid(e) == e.html = "file" /\ e.files = "nonempty"

AllTransient(faults) == \A i \in 1..Len(faults) : faults[i] = "transient"

\* C1: with max_retries = n >= 1 and the outputs not already present, when
\* every attempt fails with the transient code exactly n attempts are started
\* and the call then fails terminally (never more than n are started); when
\* the first attempt fails with another code exactly one attempt is started
\* and the call fails.
C1_RetryBound ==
    (wpc = "off" /\ maxRetries >= 1 /\ counters.faults # <<>>) =>
        /\ AllTransient(counters.faults) =>
             /\ counters.started <= maxRetries
             /\ pc = "done" =>
                  /\ counters.started = maxRetries
                  /\ ret.kind = "raise"
                  /\ ret.type = "RuntimeError"
        /\ counters.faults[1] = "other" =>
             /\ counters.started = 1
             /\ pc = "done"
             /\ ret.kind = "raise"

C1_Witness ==
    /\ pc = "done"
    /\ maxRetries = MaxRetries
    /\ AllTransient(counters.faults)
    /\ counters.started = MaxRetries
    /\ ret.type = "RuntimeError"

\* C2: a finished call has returned or raised; when it has returned, the path
\* is output_base + '.htm', the primary file exists and the '_files' sibling
\* is a non-empty directory, and either no attempt was started (the
\* already-converted check passed) or validate_html passed in the last attempt.
C2_ValidatedOrRaises ==
    (wpc = "off" /\ pc = "done") =>
        /\ ret.kind \in {"return", "raise"}
        /\ ret.kind = "return" =>
             /\ ret.path = <<outBase>>
             /\ OutputsValid(fs[outBase])
             /\ \/ counters.started = 0
                \/ lastAtt.validated /\ ~lastAtt.validateRaised

C2_Witness ==
    /\ pc = "done"
    /\ ret.kind = "return"
    /\ counters.started >= 1
    /\ lastAtt.validated

PreconditionFailure ==
    /\ pc = "done"
    /\ ret.kind = "raise"
    /\ ret.type \in {"FileNotFoundError", "ValueError"}
    /\ counters = ZeroCounters
    /\ lastAtt = NoAttempt

\* C4: a source path that does not end in '.pub' (case-insensitive) fails the
\* precondition checks, and no automation call or kill is made.  (The code
\* checks the path after resolve(), line 101, which follows symbolic links.)
C4_NonPubRejected ==
    (calls >= 1 /\ ~EndsWithPub(srcPath.name)) => PreconditionFailure

\* What holds of the code: a source path whose resolved form does not end in
\* '.pub' fails the precondition checks, and no automation call or kill is
\* made.
ResolvedExtensionLemma ==
    (calls >= 1 /\ ~EndsWithPub(pubPath.name)) => PreconditionFailure

\* C5: when validate_html runs and the primary file exists but the '_files'
\* sibling is absent, is not a directory or is an empty directory, it raises.
C5_ValidationFails ==
    (lastAtt.validated
       /\ fs[outBase].html = "file"
       /\ fs[outBase].files \in {"absent", "file", "empty"})
    => lastAtt.validateRaised

C5_Witness ==
    /\ lastAtt.validated
    /\ fs[outBase].html = "file"
    /\ fs[outBase].files = "empty"
    /\ lastAtt.validateRaised

\* C9: when an attempt has ended, by return, retry or abort, an opened
\* document has been told to close and an acquired application has been told
\* to quit, whether or not a release call failed.  (The code skips Quit when
\* Close raises in the same cleanup block.)
C9_HandlesReleased ==
    lastAtt.exit # "none" =>
        /\ lastAtt.doc => lastAtt.closeCalls >= 1
        /\ lastAtt.publisher => lastAtt.quitCalls >= 1

\* C10: a call that fails after starting an attempt raises RuntimeError, and
\* the error embedded is the last attempt's.  (The code lets a TypeError
\* escape when the error's excepinfo is None.)
C10_TerminalRuntimeError ==
    (pc = "done" /\ ret.kind = "raise" /\ counters.started >= 1) =>
        /\ ret.type = "RuntimeError"
        /\ ret.cause = lastError
        /\ lastError # <<>>
        /\ lastError[1].at = counters.started - 1

\* The matching files of the tree (N of them), and those with valid outputs
\* when the walk starts (M of them).
Matching == {f \in present : EndsWithPub(f.name)}
ValidAtStart == initialValid

\* C6: for a tree with N matching files of which M have valid outputs when
\* the walk starts, convert_directory returns (N - M, M), whichever
\* conversions fail, and convert_pub_to_html is invoked only for files that
\* were not skipped.
C6_Counts ==
    (wpc = "done" /\ treeRet # <<>>) =>
        /\ treeRet = <<Cardinality(Matching) - Cardinality(ValidAtStart),
                       Cardinality(ValidAtStart)>>
        /\ treeRet[1] = Cardinality(invoked)
        /\ invoked \cap ValidAtStart = {}

\* What holds of the counts in every tree: they sum to N, at least the M
\* files valid at the start are skipped, and the supervisor is invoked
\* exactly for the files counted as converted; the result is (N - M, M) when
\* no matching file is a symbolic link.
CountsLemma ==
    (wpc = "done" /\ treeRet # <<>>) =>
        /\ treeRet[1] + treeRet[2] = Cardinality(Matching)
        /\ treeRet[2] >= Cardinality(ValidAtStart)
        /\ treeRet[1] = Cardinality(invoked)
        /\ invoked \subseteq Matching
        /\ invoked \cap ValidAtStart = {}
        /\ (\A f \in Matching : ~IsLink(f)) =>
             treeRet = <<Cardinality(Matching) - Cardinality(ValidAtStart),
                         Cardinality(ValidAtStart)>>

\* C7: when no file of the tree matches, convert_directory returns (0, 0)
\* after the counting walk alone: no second walk, no output directory, no
\* call of the supervisor.
C7_NoMatchingFiles ==
    (wpc = "done" /\ inputExists /\ Matching = {}) =>
        /\ treeRet = <<0, 0>>
        /\ walks = 1
        /\ outDirs = {}
        /\ invoked = {}
        /\ pc = "idle"
        /\ counters = ZeroCounters

C7_Witness ==
    /\ wpc = "done"
    /\ inputExists
    /\ present # {}
    /\ Matching = {}
    /\ treeRet = <<0, 0>>

\* C8: an error raised by convert_pub_to_html never ends the walk: with the
\* input root present every matching file is examined, convert_directory
\* returns and the exit code is 0; the exit code is 1 only when the input
\* root is missing.
C8_ErrorsDoNotAbort ==
    /\ (wpc = "walk" /\ pc = "done" /\ ret.kind = "raise") => ENABLED AfterConvert
    /\ wpc = "done" =>
         /\ exitCode \in {<<0>>, <<1>>}
         /\ exitCode = <<1>> <=> ~inputExists
         /\ inputExists =>
              /\ treeRet # <<>>
              /\ pending = {}
              /\ converted + skipped = Cardinality(Matching)

C8_Witness ==
    /\ wpc = "done"
    /\ exitCode = <<0>>
    /\ Cardinality(Matching) = 2
    /\ caught = 2

\* C11: kill_publisher_processes is called once on entering every attempt
\* after the first, so a call that has started k >= 1 attempts has made k - 1
\* kill calls; none is made before the first attempt, nor when the
\* already-converted check passed.  When the kill call reports a lingering
\* process the supervisor takes the extra wait and the attempt still runs:
\* acquiring the application, opening and saving are possible next steps.
C11_KillBeforeRetries ==
    wpc = "off" =>
        /\ counters.kills = (IF counters.started = 0 THEN 0
                             ELSE counters.started - 1)
        /\ counters.checked = <<TRUE>> =>
             /\ counters.started = 0
             /\ counters.kills = 0
        /\ counters.started <= 1 => lastAtt.killOk /\ ~lastAtt.extraWait
        /\ lastAtt.extraWait <=> ~lastAtt.killOk
        /\ ~lastAtt.killOk =>
             /\ counters.started >= 2
             /\ pc = "try" \/ lastAtt.exit # "none"
             /\ pc = "try" =>
                  ENABLED (/\ RunAttempt
                           /\ lastAtt'.publisher
                           /\ lastAtt'.opens = 1
                           /\ lastAtt'.saves = 1)

C11_Witness ==
    /\ pc = "done"
    /\ ret.kind = "return"
    /\ counters.started = 2
    /\ counters.kills = 1
    /\ ~lastAtt.killOk
    /\ lastAtt.extraWait
    /\ lastAtt.publisher
    /\ lastAtt.opens = 1
    /\ lastAtt.saves = 1

\* C12: on every filesystem state check_output_exists is truthy exactly when
\* the primary file exists and the '_files' sibling is a non-empty directory,
\* and exactly when validate_html does not raise: the value the check gave at
\* the start of a call, and the outcome validate_html gave in an attempt,
\* both agree with the other function on the artifacts they saw.  The step
\* that evaluates the check leaves the filesystem as it was.
C12_CheckStep ==
    calls' # calls => fs' = fs /\ present' = present

C12_Agreement ==
    /\ \A b \in Bases :
         /\ CheckOutputExists(fs[b]) <=> OutputsValid(fs[b])
         /\ CheckOutputExists(fs[b]) <=> ~ValidateRaises(fs[b])
    /\ (counters.checked # <<>> /\ counters.started = 0) =>
         /\ counters.checked[1] <=> OutputsValid(fs[outBase])
         /\ counters.checked[1] <=> ~ValidateRaises(fs[outBase])
    /\ lastAtt.validated =>
         (lastAtt.validateRaised <=> ~CheckOutputExists(fs[outBase]))

====
